---- MODULE Spec2Model ----
(***************************************************************************)
(* mudlark: for each requested Jira issue (and its descendants), list the  *)
(* GitHub pull requests its text links to and, for each upstream pull      *)
(* request, the matching pull requests of the downstream organisation.     *)
(* The model follows src/main.go (lines 1-550): main, processOneIssue,     *)
(* processLinks, cache.getDetails, getPRStatus, getLinks, parsePRURL.      *)
(* The program runs on one goroutine: the state is the call stack of       *)
(* processOneIssue, the locals of the processLinks and getDetails call in  *)
(* progress, and the cache shared by the whole run.                        *)
(***************************************************************************)
EXTENDS Integers, Sequences, FiniteSets, TLC

(***************************************************************************)
(* Bounds of the exploration.                                              *)
(***************************************************************************)
\* issue ids given on the command line
MaxRoots == 2
\* remote calls that fail during one run
MaxFailures == 1
\* pieces of text in the description of an issue given to getLinks
MaxTextLen == 2
\* comments of an issue given to getLinks
MaxComments == 2
\* nested calls of processOneIssue; the tree under F1 needs four
MaxDepth == 4

\* decimal digits of the largest int strconv.Atoi accepts (64-bit int)
IntDigits == 19

(***************************************************************************)
(* Text: URLs, SHAs, commit messages.                                      *)
(***************************************************************************)
GitHub == "https://github.com"

\* settings.DownstreamOrg, read from the configuration file
DownstreamOrg == "down"

\* a piece of issue text of the shape host/org/repo/kind/id; id is a digit string
Token(host, org, repo, kind, id) ==
    [host |-> host, org |-> org, repo |-> repo, kind |-> kind, id |-> id]

PullURL(org, repo, id) == Token(GitHub, org, repo, "pull", id)

\* pullRequestURLPattern: https://github.com/<org>/<repo>/pull/<digits>
MatchesPattern(t) ==
    /\ t.host = GitHub
    /\ t.org # ""
    /\ t.repo # ""
    /\ t.kind = "pull"
    /\ Len(t.id) >= 1

RECURSIVE Itoa(_)
Itoa(n) == IF n < 10 THEN <<n>> ELSE Itoa(n \div 10) \o <<n % 10>>

RECURSIVE StripZeros(_)
StripZeros(ds) ==
    IF Len(ds) > 1 /\ Head(ds) = 0 THEN StripZeros(Tail(ds)) ELSE ds

RECURSIVE DigitsValue(_)
DigitsValue(ds) ==
    IF ds = <<>> THEN 0
    ELSE DigitsValue(SubSeq(ds, 1, Len(ds) - 1)) * 10 + ds[Len(ds)]

\* strconv.Atoi: the value, or a range error for a number of too many digits
Atoi(ds) ==
    IF Len(StripZeros(ds)) > IntDigits
    THEN [val |-> 0, err |-> TRUE]
    ELSE [val |-> DigitsValue(ds), err |-> FALSE]

\* strings.Contains
Contains(s, sub) ==
    \E i \in 0..(Len(s) - Len(sub)) : SubSeq(s, i + 1, i + Len(sub)) = sub

\* mutant: a string seen before is kept
uniqueStrings_None(in) == in

\* uniqueStrings: first occurrences, in order
RECURSIVE uniqueStrings(_)
uniqueStrings(in) ==
    IF in = <<>> THEN <<>>
    ELSE LET front == SubSeq(in, 1, Len(in) - 1)
             s     == in[Len(in)]
             out   == uniqueStrings(front)
         IN  IF \E k \in 1..Len(front) : front[k] = s THEN out
             ELSE Append(out, s)

\* pullRequestURLPattern.FindAllString over one text field
FindAllString(text) == SelectSeq(text, MatchesPattern)

RECURSIVE Concat(_)
Concat(ss) == IF ss = <<>> THEN <<>> ELSE Head(ss) \o Concat(Tail(ss))

\* getLinks: matches of the description, then of every comment, deduplicated
getLinks(issue) ==
    uniqueStrings(
        FindAllString(issue.description)
        \o (IF issue.hasComments
            THEN Concat([k \in 1..Len(issue.comments) |->
                            FindAllString(issue.comments[k])])
            ELSE <<>>))

\* parsePRURL: org, repo and numeric id of a URL that matches the pattern
parsePRURL(url) ==
    [org |-> url.org, repo |-> url.repo,
     id |-> Atoi(url.id).val, err |-> Atoi(url.id).err]

(***************************************************************************)
(* Pull requests.                                                          *)
(***************************************************************************)
PR(org, repo, n) == [org |-> org, repo |-> repo, number |-> n]

NoPR == PR("", "", 0)

HTMLURL(pr) == PullURL(pr.org, pr.repo, Itoa(pr.number))

\* mutant: the raw state open is looked at before the merge check
getPRStatus_RawFirst(state, isMerged) ==
    IF state = "open" THEN "OPEN" ELSE IF isMerged THEN "merged" ELSE state

\* the status getPRStatus computes from the raw state and the merge check
getPRStatus(state, isMerged) ==
    LET s1 == IF isMerged THEN "merged" ELSE state
    IN  IF s1 = "open" THEN "OPEN" ELSE s1

ShaA == <<"a", "b">>
ShaB == <<"b", "c">>
MsgNone == <<"f", "i", "x">>
MsgA == <<"p", "a", "b">>
MsgB == <<"b", "c">>
MsgAB == <<"a", "b", "c">>

Commit(sha, message) == [sha |-> sha, message |-> message]


(***************************************************************************)
(* The remote services.  Both are read-only and their data does not change *)
(* during a run: an answer is fixed the first time the run reads it        *)
(* (variable remote) and every later read of the same datum returns it.    *)
(* The sets below are the answers explored.                                *)
(***************************************************************************)
U1 == PR("up", "r1", 1)
U2 == PR("up", "r1", 2)
D1 == PR(DownstreamOrg, "r1", 1)
D2 == PR(DownstreamOrg, "r1", 2)
\* a second repository, used by the issues K1 and K2
U3 == PR("up", "r2", 3)
D3 == PR(DownstreamOrg, "r2", 3)

ShaX == <<"x", "y">>

ReviewInfo(state, merged) == [state |-> state, merged |-> merged]

\* raw state and merge flag a pull request can have
ReviewInfos(pr) ==
    IF pr = U1
    THEN {ReviewInfo("open", FALSE), ReviewInfo("closed", FALSE),
          ReviewInfo("closed", TRUE)}
    ELSE IF pr = D2
    THEN {ReviewInfo("open", FALSE), ReviewInfo("closed", FALSE)}
    ELSE IF pr = D1 THEN {ReviewInfo("closed", TRUE)}
    ELSE {ReviewInfo("open", FALSE)}

\* commit lists PullRequests.ListCommits can return for a pull request
CommitLists(pr) ==
    IF pr = U3 THEN {<<Commit(ShaB, MsgNone)>>}
    ELSE IF pr.org # DownstreamOrg
    THEN {<<>>, <<Commit(ShaA, MsgNone)>>, <<Commit(ShaB, MsgNone)>>,
          <<Commit(ShaA, MsgNone), Commit(ShaB, MsgNone)>>,
          <<Commit(ShaB, MsgNone), Commit(ShaA, MsgNone)>>}
    ELSE IF pr = D1
    THEN {<<Commit(ShaX, MsgNone)>>, <<Commit(ShaX, MsgA), Commit(ShaX, MsgAB)>>,
          <<Commit(ShaX, MsgB)>>}
    ELSE {<<Commit(ShaX, MsgNone)>>, <<Commit(ShaX, MsgAB)>>}

\* answers of ListPullRequestsWithCommit(DownstreamOrg, repo, sha); the API
\* also returns pull requests of the other repositories of the fork network
DirectResults(repo, sha) ==
    IF repo = "r2" THEN {<<>>}
    ELSE IF sha = ShaA THEN {<<>>, <<U1>>, <<U1, D1>>, <<D2, U2>>}
    ELSE {<<>>, <<D1>>}

\* the pages PullRequests.List returns for a repository, State "all"
RepoPages(key) ==
    IF key = <<DownstreamOrg, "r2">> THEN {<<<<D3>>>>} ELSE {<<<<D1>>, <<D2>>>>}

Ask(memo, k, answers) == IF k \in DOMAIN memo THEN {memo[k]} ELSE answers

\* mutant: a call makes the service lose what it held for the other data
Learn_Alone(memo, k, v) == [x \in {k} |-> v]

Learn(memo, k, v) ==
    [x \in DOMAIN memo \cup {k} |-> IF x \in DOMAIN memo THEN memo[x] ELSE v]

(***************************************************************************)
(* The issue tracker.                                                      *)
(***************************************************************************)
Word == Token("", "", "", "word", <<>>)
IssueURL == Token(GitHub, "up", "r1", "issues", <<1>>)

Issue(key, type, description, hasComments, comments, subtasks) ==
    [key |-> key, type |-> type, description |-> description,
     hasComments |-> hasComments, comments |-> comments, subtasks |-> subtasks]

\* a feature F1 with the epic E1, whose story S1 has the subtasks T2 and T1;
\* the subtask list names T2 twice.  Apart from that tree, an epic L1 whose
\* story L2 names L1 among its subtasks: L1 is its own descendant.  A story
\* K0 whose subtask K1 links to pull requests of two repositories, and a task
\* K2 that links to the second repository only
Issues ==
    [k \in {"F1", "E1", "S1", "T1", "T2", "L1", "L2", "K0", "K1", "K2"} |->
        CASE k = "F1" -> Issue("F1", "Feature", <<Word>>, FALSE, <<>>, <<>>)
          [] k = "E1" -> Issue("E1", "Epic", <<Word, IssueURL>>, FALSE, <<>>, <<>>)
          [] k = "S1" -> Issue("S1", "Story", <<Word>>, TRUE, <<>>,
                               <<"T2", "T2", "T1">>)
          [] k = "T1" -> Issue("T1", "Task",
                               <<Word, HTMLURL(U1), HTMLURL(D2)>>, TRUE,
                               <<<<HTMLURL(U1), Word>>>>, <<>>)
          [] k = "T2" -> Issue("T2", "Task", <<Word>>, FALSE, <<>>, <<>>)
          [] k = "L1" -> Issue("L1", "Epic", <<Word>>, FALSE, <<>>, <<>>)
          [] k = "L2" -> Issue("L2", "Story", <<Word>>, FALSE, <<>>,
                               <<"T1", "L1">>)
          [] k = "K0" -> Issue("K0", "Story", <<Word>>, FALSE, <<>>, <<"K1">>)
          [] k = "K1" -> Issue("K1", "Task", <<HTMLURL(U1), HTMLURL(U3)>>,
                               FALSE, <<>>, <<>>)
          [] k = "K2" -> Issue("K2", "Task", <<HTMLURL(U3)>>, FALSE, <<>>, <<>>)]

\* keys of the issues jira.Issue.Search returns for "<searchTerm>" = issueID
SearchResults(searchTerm, issueID) ==
    IF searchTerm = "Epic Link" /\ issueID = "E1" THEN <<"S1">>
    ELSE IF searchTerm = "Parent Link" /\ issueID = "F1" THEN <<"E1">>
    ELSE IF searchTerm = "Epic Link" /\ issueID = "L1" THEN <<"L2">>
    ELSE <<>>

\* an issue as jira.Issue.Search returns it: the fields without the comments
Summary(key) == [Issues[key] EXCEPT !.hasComments = FALSE, !.comments = <<>>]

\* children, _, err := clients.jira.Issue.Search(search, &searchOptions)
SearchSummaries(searchTerm, issueID) ==
    [k \in 1..Len(SearchResults(searchTerm, issueID)) |->
        Summary(SearchResults(searchTerm, issueID)[k])]


(***************************************************************************)
(* Program state.                                                          *)
(***************************************************************************)
VARIABLES
    roots,        \* flag.Args(): the issue ids requested
    rootIdx,      \* main: index of the root being processed
    shown,        \* main: what was printed, one entry per root
    pc,           \* position of the running call
    stack,        \* processOneIssue calls in progress, innermost first
    ret,          \* value a processOneIssue call has just returned
    pl,           \* locals of the processLinks call in progress
    gd,           \* locals of the cache.getDetails call in progress
    cache,        \* cache.pullRequestsByRepo: repoKey -> repoPRCache
    commitMaps,   \* the map[int][]commit objects made at line 96, by reference
    remote,       \* the remote data read so far
    failuresLeft, \* remote failures that may still happen
    calls,        \* history: remote calls and getDetails requests issued
    snaps         \* history: what each getDetails call returned

vars == <<roots, rootIdx, shown, pc, stack, ret, pl, gd, cache, commitMaps,
          remote, failuresLeft, calls, snaps>>

NoURL == Token("", "", "", "", <<>>)

\* zero value of linkResult
ZeroLink ==
    [url |-> NoURL, org |-> "", repo |-> "", id |-> 0,
     pull |-> NoPR, status |-> "", others |-> <<>>]

LinkResult(url, org, repo, id, pull, status) ==
    [url |-> url, org |-> org, repo |-> repo, id |-> id,
     pull |-> pull, status |-> status, others |-> <<>>]

\* repoPRCache: the slice of pull requests and a reference to the commits map
RepoPRCache(pullRequests, commits) ==
    [pullRequests |-> pullRequests, commits |-> commits]

NoSnap == RepoPRCache(<<>>, 0)

NoPL ==
    [links |-> <<>>, i |-> 0, results |-> <<>>, pullRequest |-> NoPR,
     commits |-> <<>>, ci |-> 0, otherIDs |-> {}, otherPRs |-> <<>>, oj |-> 0,
     cached |-> NoSnap, sk |-> 0]

NoGD ==
    [key |-> <<>>, prCache |-> NoSnap, page |-> 0, prs |-> <<>>, pk |-> 0,
     nextPage |-> 0]

NoIssue == Issue("", "", <<>>, FALSE, <<>>, <<>>)

Frame(issueID) ==
    [issueID |-> issueID, issue |-> NoIssue, linkResults |-> <<>>,
     childKeys |-> <<>>, childIdx |-> 0, children |-> <<>>]

\* issueResult
IssueResult(f) ==
    [issue |-> f.issue.key, linkResults |-> f.linkResults, children |-> f.children]

NoResult == [issue |-> "", linkResults |-> <<>>, children |-> <<>>]

NoRet == [err |-> FALSE, val |-> NoResult]

Top == stack[1]

SetTop(f) == <<f>> \o Tail(stack)

\* the link processLinks is working on, NoURL outside processLinks
CurrentLink == IF pl.i = 0 THEN NoURL ELSE pl.links[pl.i]

\* a call as the history records it: cond is the condition of a failed call
\* ("" for a call that succeeded), root the index of the root being walked
CallCond(op, arg, ok, cond) ==
    [op |-> op, arg |-> arg, ok |-> ok, cond |-> cond, link |-> CurrentLink,
     issue |-> IF stack = <<>> THEN "" ELSE Top.issueID, root |-> rootIdx]

Call(op, arg, ok) == CallCond(op, arg, ok, IF ok THEN "" ELSE "error")

Snap(key, err, pullRequests, commits) ==
    [key |-> key, err |-> err, pullRequests |-> pullRequests, commits |-> commits]

\* the command lines explored: the feature F1, then the task T1 (a tree, then
\* an issue of that tree asked for again), then the task T2 without links
RootSeqs ==
    {[k \in 1..n |-> IF k = 1 THEN "F1" ELSE IF k = 2 THEN "T1" ELSE "T2"] :
        n \in 1..MaxRoots}

Init ==
    /\ roots \in RootSeqs
    /\ rootIdx = 1
    /\ shown = <<>>
    /\ pc = "main"
    /\ stack = <<>>
    /\ ret = NoRet
    /\ pl = NoPL
    /\ gd = NoGD
    /\ cache = <<>>
    /\ commitMaps = <<>>
    /\ remote = [review |-> <<>>, commits |-> <<>>, direct |-> <<>>, pages |-> <<>>]
    /\ failuresLeft = MaxFailures
    /\ calls = <<>>
    /\ snaps = <<>>


(***************************************************************************)
(* Go maps.                                                                *)
(***************************************************************************)
MapGet(m, k) == IF k \in DOMAIN m THEN m[k] ELSE <<>>

MapPut(m, k, v) == [x \in DOMAIN m \cup {k} |-> IF x = k THEN v ELSE m[x]]

\* fmt.Sprintf("%s/%s", org, repo)
RepoKey(org, repo) == <<org, repo>>

(***************************************************************************)
(* The decisions of processLinks and getDetails.                           *)
(***************************************************************************)
\* mutant: the test of the organisation is lost
IsDownstream_Never(org) == FALSE

\* line 275: the link is a pull request of the downstream organisation
IsDownstream(org) == org = DownstreamOrg

\* mutant: closed pull requests are searched like the others
SkipClosed_Never(status) == FALSE

\* line 279: an upstream pull request closed without being merged
SkipClosed(status) == status = "closed"

\* mutant: the echo of the upstream pull request is not recognised
IsEcho_Never(otherPR, url) == FALSE

\* line 303: the API returned the upstream pull request itself
IsEcho(otherPR, url) == HTMLURL(otherPR) = url

\* mutant: the numbers already accepted are not looked up
IsDuplicate_Never(otherIDs, number) == FALSE

\* line 308: a pull request number already accepted for this link
IsDuplicate(otherIDs, number) == number \in otherIDs

\* mutant: the number of the echo is remembered like that of a match
SeenAfterEcho_Registered(otherIDs, otherPR) == otherIDs \cup {otherPR.number}

\* lines 303-307: the echo is passed over before line 312, otherIDs is as before
SeenAfterEcho(otherIDs, otherPR) == otherIDs

\* line 346: the same test in the scan of the cached details
IsDuplicateCached(otherIDs, number) == number \in otherIDs

\* mutant: the cache is consulted for every commit
NeedsCache_Always(otherIDs) == TRUE

\* line 335: no pull request accepted so far, look in the cache
NeedsCache(otherIDs) == Cardinality(otherIDs) = 0

\* line 345: some commit message of the pull request mentions the SHA
MentionsSHA(commits, sha) ==
    \E k \in 1..Len(commits) : Contains(commits[k].message, sha)

\* mutant: the map is replaced by one that holds the new entry only
StoreEntry_Alone(c, key, prCache) == [x \in {key} |-> prCache]

\* mutant: the new entry is not put in the map
StoreEntry_Skipped(c, key, prCache) == c

\* line 98: c.pullRequestsByRepo[repoKey] = prCache
StoreEntry(c, key, prCache) == MapPut(c, key, prCache)

\* mutant: the match is recorded with the status of the link (prWithStatus
\* in place of otherWithStatus)
AppendOther_LinkStatus(results, i, other, status) ==
    LET p == parsePRURL(HTMLURL(other))
    IN  [results EXCEPT ![i].others =
            Append(@, LinkResult(HTMLURL(other), p.org, p.repo, p.id, other,
                                 results[i].status))]

\* mutant: the match is put in front of the matches found before
AppendOther_Front(results, i, other, status) ==
    LET p == parsePRURL(HTMLURL(other))
    IN  [results EXCEPT ![i].others =
            <<LinkResult(HTMLURL(other), p.org, p.repo, p.id, other, status)>> \o @]

\* mutant: the match is recorded with the matches found before as its own
AppendOther_Nested(results, i, other, status) ==
    LET p == parsePRURL(HTMLURL(other))
    IN  [results EXCEPT ![i].others =
            Append(@, [LinkResult(HTMLURL(other), p.org, p.repo, p.id, other, status)
                          EXCEPT !.others = results[i].others])]

\* lines 324-330, 362-368: append the other pull request to result.others
AppendOther(results, i, other, status) ==
    LET p == parsePRURL(HTMLURL(other))
    IN  [results EXCEPT ![i].others =
            Append(@, LinkResult(HTMLURL(other), p.org, p.repo, p.id, other, status))]

(***************************************************************************)
(* Control flow shared by the steps.                                       *)
(***************************************************************************)
\* mutant: the failed step is tried again
ReturnError_Retry ==
    /\ stack' = stack
    /\ ret' = ret
    /\ pc' = pc
    /\ pl' = pl
    /\ gd' = gd

\* mutant: the error is returned together with what was collected so far
ReturnError_Partial ==
    /\ stack' = Tail(stack)
    /\ ret' = [err |-> TRUE,
               val |-> [issue |-> stack[1].issueID,
                        linkResults |-> IF pl.i = 0 THEN stack[1].linkResults
                                        ELSE pl.results,
                        children |-> stack[1].children]]
    /\ pc' = "return"
    /\ pl' = NoPL
    /\ gd' = NoGD

\* return nil, err from the running processOneIssue call
ReturnError ==
    /\ stack' = Tail(stack)
    /\ ret' = [err |-> TRUE, val |-> NoResult]
    /\ pc' = "return"
    /\ pl' = NoPL
    /\ gd' = NoGD

\* a remote call fails with the condition cond: its error is wrapped and
\* returned up to processOneIssue
RemoteErrorCond(op, arg, cond) ==
    /\ failuresLeft > 0
    /\ failuresLeft' = failuresLeft - 1
    /\ calls' = Append(calls, CallCond(op, arg, FALSE, cond))
    /\ ReturnError
    /\ UNCHANGED <<roots, rootIdx, shown, cache, commitMaps, remote>>

RemoteError(op, arg) == RemoteErrorCond(op, arg, "error")

Fail(op, arg) == RemoteError(op, arg) /\ UNCHANGED snaps

\* the conditions ListPullRequestsWithCommit fails with: the repository does
\* not exist in the downstream organisation (404), or anything else
DirectQueryErrors == {"not found", "error"}

\* lines 296-298: every err != nil is returned, whatever its condition
FailDirectQuery(arg) ==
    \E cond \in DirectQueryErrors :
        RemoteErrorCond("ListPullRequestsWithCommit", arg, cond) /\ UNCHANGED snaps

\* lines 109-112, 118-121: the same inside getDetails, which returns nil, err
FailDetails(op, arg) ==
    /\ RemoteError(op, arg)
    /\ snaps' = Append(snaps, Snap(gd.key, TRUE, <<>>, <<>>))

\* mutant: an issue fetched before in the run is not fetched again
Did_FetchOnce(op, arg) ==
    /\ calls' = IF /\ op = "Issue.Get"
                   /\ \E k \in 1..Len(calls) :
                         calls[k].op = op /\ calls[k].arg = arg /\ calls[k].ok
                THEN calls
                ELSE Append(calls, [op |-> op, arg |-> arg, ok |-> TRUE, cond |-> "",
                                    link |-> IF pl.i = 0 THEN [host |-> "", org |-> "",
                                                 repo |-> "", kind |-> "", id |-> <<>>]
                                             ELSE pl.links[pl.i],
                                    issue |-> IF stack = <<>> THEN "" ELSE stack[1].issueID,
                                    root |-> rootIdx])
    /\ UNCHANGED <<failuresLeft, roots, rootIdx, shown, ret>>

\* a remote call that succeeded
Did(op, arg) ==
    /\ calls' = Append(calls, Call(op, arg, TRUE))
    /\ UNCHANGED <<failuresLeft, roots, rootIdx, shown, ret>>

\* line 245: the next link, or line 375: return results to processOneIssue
NextLink(p) ==
    IF p.i < Len(p.links)
    THEN /\ pc' = "linkGet"
         /\ pl' = [NoPL EXCEPT !.links = p.links, !.results = p.results,
                               !.i = p.i + 1]
         /\ stack' = stack
    ELSE /\ pc' = "children"
         /\ pl' = NoPL
         /\ stack' = SetTop([Top EXCEPT !.linkResults = p.results])

\* line 293: the next commit of the upstream pull request
NextCommit(p) ==
    IF p.ci < Len(p.commits)
    THEN /\ pc' = "commitQuery"
         /\ pl' = [p EXCEPT !.ci = p.ci + 1, !.otherPRs = <<>>, !.oj = 0,
                            !.cached = NoSnap, !.sk = 0]
         /\ stack' = stack
    ELSE NextLink(p)

\* line 343: the next pull request of the cached details
NextScan(p) ==
    IF p.sk < Len(p.cached.pullRequests)
    THEN /\ pc' = "scan"
         /\ pl' = [p EXCEPT !.sk = p.sk + 1]
         /\ stack' = stack
    ELSE NextCommit(p)

\* line 302: the next pull request the API returned; line 335 after the last
NextOther(p) ==
    IF p.oj < Len(p.otherPRs)
    THEN /\ pc' = "otherPR"
         /\ pl' = [p EXCEPT !.oj = p.oj + 1]
         /\ stack' = stack
    ELSE IF NeedsCache(p.otherIDs)
    THEN /\ pc' = "cacheLookup"
         /\ pl' = [p EXCEPT !.otherPRs = <<>>, !.oj = 0]
         /\ stack' = stack
    ELSE NextCommit(p)

\* line 131: getDetails returns &prCache to line 336
ReturnDetails(key, prCache, maps) ==
    /\ snaps' = Append(snaps, Snap(key, FALSE, prCache.pullRequests,
                                   maps[prCache.commits]))
    /\ gd' = NoGD
    /\ NextScan([pl EXCEPT !.cached = prCache, !.sk = 0])

\* line 115: the next pull request of the page; lines 125-128 after the last
NextCachePR(g, maps) ==
    IF g.pk < Len(g.prs)
    THEN /\ pc' = "cacheCommits"
         /\ gd' = [g EXCEPT !.pk = g.pk + 1]
         /\ UNCHANGED <<pl, stack, snaps>>
    ELSE IF g.nextPage = 0
    THEN ReturnDetails(g.key, g.prCache, maps)
    ELSE /\ pc' = "cachePage"
         /\ gd' = [g EXCEPT !.page = g.nextPage, !.prs = <<>>, !.pk = 0,
                            !.nextPage = 0]
         /\ UNCHANGED <<pl, stack, snaps>>


(***************************************************************************)
(* main, lines 537-548.                                                    *)
(***************************************************************************)
\* line 542: processOneIssue(settings, clients, cache, issueID, "")
MainCall ==
    /\ pc = "main"
    /\ rootIdx <= Len(roots)
    /\ stack' = <<Frame(roots[rootIdx])>>
    /\ pc' = "issueGet"
    /\ UNCHANGED <<roots, rootIdx, shown, ret, pl, gd, cache, commitMaps,
                   remote, failuresLeft, calls, snaps>>

\* mutant: the run stops at the first root that fails
NextRoot_StopOnError(idx, err) == IF err THEN Len(roots) + 1 ELSE idx + 1

\* lines 541-548: after an error (continue) as after a result, the next issue id
NextRoot(idx, err) == idx + 1

\* lines 543-547: print the error and continue, or show the result
MainReturn ==
    /\ pc = "return"
    /\ stack = <<>>
    /\ shown' = Append(shown, [root |-> roots[rootIdx], err |-> ret.err,
                               result |-> ret.val])
    /\ rootIdx' = NextRoot(rootIdx, ret.err)
    /\ ret' = NoRet
    /\ pc' = "main"
    /\ UNCHANGED <<roots, stack, pl, gd, cache, commitMaps, remote,
                   failuresLeft, calls, snaps>>

\* line 541: no issue id is left
MainExit ==
    /\ pc = "main"
    /\ rootIdx > Len(roots)
    /\ pc' = "done"
    /\ UNCHANGED <<roots, rootIdx, shown, stack, ret, pl, gd, cache,
                   commitMaps, remote, failuresLeft, calls, snaps>>

(***************************************************************************)
(* processOneIssue, lines 404-457.                                         *)
(***************************************************************************)
\* lines 407-421: fetch the issue, extract its links, start processLinks
IssueGet ==
    /\ pc = "issueGet"
    /\ \/ Fail("Issue.Get", Top.issueID)
       \/ LET issue == Issues[Top.issueID]
              links == getLinks(issue)
          IN  /\ Did("Issue.Get", Top.issueID)
              /\ stack' = SetTop([Top EXCEPT !.issue = issue])
              /\ IF Len(links) # 0
                 THEN /\ pc' = "linkGet"
                      /\ pl' = [NoPL EXCEPT
                                  !.links = links, !.i = 1,
                                  !.results = [k \in 1..Len(links) |-> ZeroLink]]
                 ELSE /\ pc' = "children"
                      /\ pl' = NoPL
              /\ UNCHANGED <<gd, cache, commitMaps, remote, snaps>>

\* mutant: the field of the epics is used for every type
searchTerm_EpicOnly(type) == "Epic Link"

\* lines 428-431: the field the search compares with the key of the issue
searchTerm(type) == IF type = "Feature" THEN "Parent Link" ELSE "Epic Link"

\* lines 423-455: the child issues, by the type of the issue
Children ==
    /\ pc = "children"
    /\ LET type == Top.issue.type
           search == <<searchTerm(type), Top.issueID>>
       IN  IF type \in {"Epic", "Feature"}
           THEN \/ Fail("Issue.Search", search)
                \/ /\ Did("Issue.Search", search)
                   /\ LET children == SearchSummaries(searchTerm(type), Top.issueID)
                      IN  stack' = SetTop([Top EXCEPT !.childKeys =
                                 [k \in 1..Len(children) |-> children[k].key]])
                   /\ pc' = "childCall"
                   /\ UNCHANGED <<pl, gd, cache, commitMaps, remote, snaps>>
           ELSE /\ stack' = SetTop([Top EXCEPT
                              !.childKeys = IF type = "Story"
                                            THEN Top.issue.subtasks ELSE <<>>])
                /\ pc' = "childCall"
                /\ UNCHANGED <<roots, rootIdx, shown, ret, pl, gd, cache,
                               commitMaps, remote, failuresLeft, calls, snaps>>

\* mutant: the loop over the children ends one child early
MoreChildren_AllButLast(idx, keys) == idx < Len(keys) - 1

\* lines 439, 447: the range loop has a child left
MoreChildren(idx, keys) == idx < Len(keys)

\* mutant: the walk of the child starts from the summary the parent holds
ChildFrame_Summary(key) == [Frame(key) EXCEPT !.issue = Summary(key)]

\* lines 440, 448: processOneIssue is called with the key of the child only
ChildFrame(key) == Frame(key)

\* lines 439-440, 447-448: walk the next child; line 456: return result, nil
ChildCall ==
    /\ pc = "childCall"
    /\ MoreChildren(Top.childIdx, Top.childKeys) => Len(stack) < MaxDepth
    /\ IF MoreChildren(Top.childIdx, Top.childKeys)
       THEN /\ stack' = <<ChildFrame(Top.childKeys[Top.childIdx + 1]),
                          [Top EXCEPT !.childIdx = Top.childIdx + 1]>>
                        \o Tail(stack)
            /\ pc' = "issueGet"
            /\ ret' = ret
       ELSE /\ stack' = Tail(stack)
            /\ ret' = [err |-> FALSE, val |-> IssueResult(Top)]
            /\ pc' = "return"
    /\ UNCHANGED <<roots, rootIdx, shown, pl, gd, cache, commitMaps, remote,
                   failuresLeft, calls, snaps>>

\* mutant: the result of the child is put in front of the others
AppendChild_Front(children, childResult) == <<childResult>> \o children

\* lines 444, 452: result.children = append(result.children, childResult)
AppendChild(children, childResult) == Append(children, childResult)

\* lines 441-444, 449-452: the child's walk returned to its parent
ChildReturn ==
    /\ pc = "return"
    /\ stack # <<>>
    /\ IF ret.err
       THEN /\ stack' = Tail(stack)
            /\ ret' = ret
            /\ pc' = "return"
       ELSE /\ stack' = SetTop([Top EXCEPT !.children = AppendChild(@, ret.val)])
            /\ ret' = NoRet
            /\ pc' = "childCall"
    /\ UNCHANGED <<roots, rootIdx, shown, pl, gd, cache, commitMaps, remote,
                   failuresLeft, calls, snaps>>


(***************************************************************************)
(* processLinks, lines 240-376.                                            *)
(***************************************************************************)
\* lines 247-266: parse the URL and fetch the pull request
LinkGet ==
    /\ pc = "linkGet"
    /\ LET url == pl.links[pl.i]
           p   == parsePRURL(url)
           res == [pl.results EXCEPT ![pl.i] =
                     [@ EXCEPT !.url = url, !.org = p.org, !.repo = p.repo,
                               !.id = p.id]]
       IN  IF p.err
           THEN /\ ReturnError
                /\ UNCHANGED <<roots, rootIdx, shown, cache, commitMaps, remote,
                               failuresLeft, calls, snaps>>
           ELSE \/ Fail("PullRequests.Get", PR(p.org, p.repo, p.id))
                \/ /\ Did("PullRequests.Get", PR(p.org, p.repo, p.id))
                   /\ pl' = [pl EXCEPT !.results = res,
                                       !.pullRequest = PR(p.org, p.repo, p.id)]
                   /\ pc' = "linkStatus"
                   /\ UNCHANGED <<stack, gd, cache, commitMaps, remote, snaps>>

\* lines 268-283: the status, then the two tests that end the link
LinkStatus ==
    /\ pc = "linkStatus"
    /\ LET pr == pl.pullRequest
       IN  \/ Fail("PullRequests.IsMerged", pr)
           \/ \E info \in Ask(remote.review, pr, ReviewInfos(pr)) :
                LET status == getPRStatus(info.state, info.merged)
                    p == [pl EXCEPT !.results[pl.i].pull = pr,
                                    !.results[pl.i].status = status]
                IN  /\ Did("PullRequests.IsMerged", pr)
                    /\ remote' = [remote EXCEPT !.review = Learn(@, pr, info)]
                    /\ IF IsDownstream(p.results[p.i].org) THEN NextLink(p)
                       ELSE IF SkipClosed(status) THEN NextLink(p)
                       ELSE /\ pc' = "listCommits"
                            /\ pl' = p
                            /\ stack' = stack
                    /\ UNCHANGED <<gd, cache, commitMaps, snaps>>

\* lines 285-292: the commits of the upstream pull request
ListCommits ==
    /\ pc = "listCommits"
    /\ LET pr == pl.pullRequest
       IN  \/ Fail("PullRequests.ListCommits", pr)
           \/ \E commits \in Ask(remote.commits, pr, CommitLists(pr)) :
                /\ Did("PullRequests.ListCommits", pr)
                /\ remote' = [remote EXCEPT !.commits = Learn(@, pr, commits)]
                /\ NextCommit([pl EXCEPT !.commits = commits, !.ci = 0,
                                         !.otherIDs = {}])
                /\ UNCHANGED <<gd, cache, commitMaps, snaps>>

\* lines 294-298: the pull requests of the downstream repository with the commit
CommitQuery ==
    /\ pc = "commitQuery"
    /\ LET repo == pl.results[pl.i].repo
           sha  == pl.commits[pl.ci].sha
           q    == <<repo, sha>>
       IN  \/ FailDirectQuery(q)
           \/ \E otherPRs \in Ask(remote.direct, q, DirectResults(repo, sha)) :
                /\ Did("ListPullRequestsWithCommit", q)
                /\ remote' = [remote EXCEPT !.direct = Learn(@, q, otherPRs)]
                /\ NextOther([pl EXCEPT !.otherPRs = otherPRs, !.oj = 0])
                /\ UNCHANGED <<gd, cache, commitMaps, snaps>>

\* the rest of the loop an accepted or skipped pull request belongs to
Continue(loop, p) == IF loop = "scan" THEN NextScan(p) ELSE NextOther(p)

\* the body shared by lines 312-330 and 350-368: remember the number, get the
\* status, parse the URL and append the pull request to result.others
Accept(other, loop) ==
    LET seen == [pl EXCEPT !.otherIDs = @ \cup {other.number}]
    IN  \/ Fail("PullRequests.IsMerged", other)
        \/ \E info \in Ask(remote.review, other, ReviewInfos(other)) :
             LET status == getPRStatus(info.state, info.merged)
             IN  IF parsePRURL(HTMLURL(other)).err
                 THEN /\ ReturnError
                      /\ calls' = Append(calls, Call("PullRequests.IsMerged", other, TRUE))
                      /\ remote' = [remote EXCEPT !.review = Learn(@, other, info)]
                      /\ UNCHANGED <<roots, rootIdx, shown, cache, commitMaps,
                                     failuresLeft, snaps>>
                 ELSE /\ Did("PullRequests.IsMerged", other)
                      /\ remote' = [remote EXCEPT !.review = Learn(@, other, info)]
                      /\ Continue(loop, [seen EXCEPT !.results =
                                            AppendOther(@, pl.i, other, status)])
                      /\ UNCHANGED <<gd, cache, commitMaps, snaps>>

\* lines 303-311, 345-349: the pull request is passed over
Skip(loop) ==
    /\ Continue(loop, pl)
    /\ UNCHANGED <<roots, rootIdx, shown, ret, gd, cache, commitMaps, remote,
                   failuresLeft, calls, snaps>>

\* lines 303-307: the echo of the upstream pull request is passed over
SkipEcho(otherPR) ==
    /\ Continue("other", [pl EXCEPT !.otherIDs = SeenAfterEcho(@, otherPR)])
    /\ UNCHANGED <<roots, rootIdx, shown, ret, gd, cache, commitMaps, remote,
                   failuresLeft, calls, snaps>>

\* lines 302-331: one pull request returned by the API
OtherPR ==
    /\ pc = "otherPR"
    /\ LET otherPR == pl.otherPRs[pl.oj]
       IN  IF IsEcho(otherPR, pl.links[pl.i]) THEN SkipEcho(otherPR)
           ELSE IF IsDuplicate(pl.otherIDs, otherPR.number) THEN Skip("other")
           ELSE Accept(otherPR, "other")

\* lines 343-371: one pull request of the cached details
Scan ==
    /\ pc = "scan"
    /\ LET pr      == pl.cached.pullRequests[pl.sk]
           commits == MapGet(commitMaps[pl.cached.commits], pr.number)
           sha     == pl.commits[pl.ci].sha
       IN  IF MentionsSHA(commits, sha) /\ ~IsDuplicateCached(pl.otherIDs, pr.number)
           THEN Accept(pr, "scan")
           ELSE Skip("scan")

(***************************************************************************)
(* cache.getDetails, lines 88-132.                                         *)
(***************************************************************************)
\* lines 90-99 and, for a key already in the map, line 131
CacheLookup ==
    /\ pc = "cacheLookup"
    /\ LET key == RepoKey(DownstreamOrg, pl.results[pl.i].repo)
       IN  /\ Did("getDetails", key)
           /\ remote' = remote
           /\ IF key \in DOMAIN cache
              THEN /\ ReturnDetails(key, cache[key], commitMaps)
                   /\ UNCHANGED <<cache, commitMaps>>
              ELSE LET prCache == RepoPRCache(<<>>, Len(commitMaps) + 1)
                   IN  /\ commitMaps' = Append(commitMaps, <<>>)
                       /\ cache' = StoreEntry(cache, key, prCache)
                       /\ gd' = [NoGD EXCEPT !.key = key, !.prCache = prCache,
                                             !.page = 1]
                       /\ pc' = "cachePage"
                       /\ UNCHANGED <<pl, stack, snaps>>

\* mutant: the build stops after the page it has
NextPage_Stop(page, pages) == 0

\* response.NextPage: the number of the page after this one, 0 after the last
NextPage(page, pages) == IF page < Len(pages) THEN page + 1 ELSE 0

\* lines 108-114: one page of the pull requests of the repository
CachePage ==
    /\ pc = "cachePage"
    /\ LET q == <<gd.key, gd.page>>
       IN  \/ FailDetails("PullRequests.List", q)
           \/ \E pages \in Ask(remote.pages, gd.key, RepoPages(gd.key)) :
                LET prs == pages[gd.page]
                    g == [gd EXCEPT
                            !.prCache.pullRequests = @ \o prs,
                            !.prs = prs, !.pk = 0,
                            !.nextPage = NextPage(gd.page, pages)]
                IN  /\ Did("PullRequests.List", q)
                    /\ remote' = [remote EXCEPT !.pages = Learn(@, gd.key, pages)]
                    /\ NextCachePR(g, commitMaps)
                    /\ UNCHANGED <<cache, commitMaps>>

\* lines 116-122: the commits of one pull request of the page
CacheCommits ==
    /\ pc = "cacheCommits"
    /\ LET pr == gd.prs[gd.pk]
       IN  \/ FailDetails("PullRequests.ListCommits", pr)
           \/ \E commits \in Ask(remote.commits, pr, CommitLists(pr)) :
                LET maps == [commitMaps EXCEPT ![gd.prCache.commits] =
                                MapPut(@, pr.number, commits)]
                IN  /\ Did("PullRequests.ListCommits", pr)
                    /\ remote' = [remote EXCEPT !.commits = Learn(@, pr, commits)]
                    /\ commitMaps' = maps
                    /\ NextCachePR(gd, maps)
                    /\ cache' = cache

Next ==
    \/ MainCall
    \/ MainReturn
    \/ MainExit
    \/ IssueGet
    \/ Children
    \/ ChildCall
    \/ ChildReturn
    \/ LinkGet
    \/ LinkStatus
    \/ ListCommits
    \/ CommitQuery
    \/ OtherPR
    \/ Scan
    \/ CacheLookup
    \/ CachePage
    \/ CacheCommits

Spec == Init /\ [][Next]_vars

(***************************************************************************)
(* The run to its end.  The command lines are those of Spec and those that *)
(* start with L1, the issue that is its own descendant.  The program runs  *)
(* on one goroutine that is never suspended for ever, every remote call    *)
(* returns and every repository has finitely many pages: a step that can   *)
(* be taken is taken.                                                      *)
(***************************************************************************)
CycleSeqs ==
    {[k \in 1..n |-> IF k = 1 THEN "L1" ELSE "T2"] : n \in 1..MaxRoots}

InitLive ==
    /\ roots \in RootSeqs \cup CycleSeqs
    /\ rootIdx = 1
    /\ shown = <<>>
    /\ pc = "main"
    /\ stack = <<>>
    /\ ret = NoRet
    /\ pl = NoPL
    /\ gd = NoGD
    /\ cache = <<>>
    /\ commitMaps = <<>>
    /\ remote = [review |-> <<>>, commits |-> <<>>, direct |-> <<>>, pages |-> <<>>]
    /\ failuresLeft = MaxFailures
    /\ calls = <<>>
    /\ snaps = <<>>

SpecLive == InitLive /\ [][Next]_vars /\ WF_vars(Next)

(***************************************************************************)
(* Runs that ask for the details of two repositories: the story K0, then   *)
(* the task K2.                                                            *)
(***************************************************************************)
KeySeqs ==
    {[k \in 1..n |-> IF k = 1 THEN "K0" ELSE "K2"] : n \in 1..MaxRoots}

InitKeys ==
    /\ roots \in KeySeqs
    /\ rootIdx = 1
    /\ shown = <<>>
    /\ pc = "main"
    /\ stack = <<>>
    /\ ret = NoRet
    /\ pl = NoPL
    /\ gd = NoGD
    /\ cache = <<>>
    /\ commitMaps = <<>>
    /\ remote = [review |-> <<>>, commits |-> <<>>, direct |-> <<>>, pages |-> <<>>]
    /\ failuresLeft = MaxFailures
    /\ calls = <<>>
    /\ snaps = <<>>

SpecKeys == InitKeys /\ [][Next]_vars

(***************************************************************************)
(* getLinks and getPRStatus on their own: the two functions are applied to *)
(* every issue text and every pull request state within the bounds.        *)
(***************************************************************************)
\* the pieces of text of an issue field: a word, two pull request URLs and a
\* GitHub URL that is not a pull request
TextTokens == {Word, IssueURL, HTMLURL(U1), HTMLURL(D2)}

TextsUpTo(n) == UNION {[1..m -> TextTokens] : m \in 0..n}

\* the bodies of the comments: at most one piece of text each
CommentBodies == {<<>>} \cup {<<t>> : t \in TextTokens}

CommentsUpTo(n) == UNION {[1..m -> CommentBodies] : m \in 0..n}

\* issues as jira.Issue.Get returns them: Fields.Comments is nil, or a list
TextIssues ==
    {Issue("I1", "Task", d, FALSE, <<>>, <<>>) : d \in TextsUpTo(MaxTextLen)}
    \cup {Issue("I1", "Task", d, TRUE, c, <<>>) :
            d \in TextsUpTo(MaxTextLen), c \in CommentsUpTo(MaxComments)}

\* pullRequest.State as GitHub reports it, and the answer of IsMerged
RawStates == {"open", "closed"}

RawInfos == {ReviewInfo(state, merged) : state \in RawStates, merged \in BOOLEAN}

InitPure ==
    /\ roots = <<>>
    /\ rootIdx = 1
    /\ shown = <<>>
    /\ pc = "getLinks"
    /\ \E issue \in TextIssues : stack = <<[Frame("I1") EXCEPT !.issue = issue]>>
    /\ ret = NoRet
    /\ pl = NoPL
    /\ gd = NoGD
    /\ cache = <<>>
    /\ commitMaps = <<>>
    /\ \E info \in RawInfos :
          remote = [review |-> (U1 :> info), commits |-> <<>>, direct |-> <<>>,
                    pages |-> <<>>]
    /\ failuresLeft = 0
    /\ calls = <<>>
    /\ snaps = <<>>

\* line 413: links := getLinks(issue)
ApplyGetLinks ==
    /\ pc = "getLinks"
    /\ pl' = [pl EXCEPT !.links = getLinks(Top.issue)]
    /\ pc' = "getPRStatus"
    /\ UNCHANGED <<roots, rootIdx, shown, stack, ret, gd, cache, commitMaps,
                   remote, failuresLeft, calls, snaps>>

\* lines 268-273: prWithStatus, err := getPRStatus(settings, clients, pullRequest)
ApplyGetPRStatus ==
    /\ pc = "getPRStatus"
    /\ LET info == remote.review[U1]
       IN  pl' = [pl EXCEPT !.pullRequest = U1,
                            !.results = <<[ZeroLink EXCEPT
                                 !.pull = U1,
                                 !.status = getPRStatus(info.state, info.merged)]>>]
    /\ pc' = "gotPRStatus"
    /\ UNCHANGED <<roots, rootIdx, shown, stack, ret, gd, cache, commitMaps,
                   remote, failuresLeft, calls, snaps>>

NextPure ==
    \/ ApplyGetLinks
    \/ ApplyGetPRStatus

SpecPure == InitPure /\ [][NextPure]_vars


(***************************************************************************)
(* What the properties talk about.                                         *)
(***************************************************************************)
Range(q) == {q[k] : k \in 1..Len(q)}

RECURSIVE TreeLinks(_)
\* the link results of an issue result and of its descendants
TreeLinks(r) ==
    Range(r.linkResults) \cup UNION {TreeLinks(r.children[k]) : k \in 1..Len(r.children)}

\* the link results whose processing has ended: those before the current link
\* of the running processLinks call, and those of every result built so far
DoneLinks ==
    {pl.results[k] : k \in 1..(pl.i - 1)}
    \cup UNION {Range(stack[k].linkResults) : k \in 1..Len(stack)}
    \cup UNION {UNION {TreeLinks(c) : c \in Range(stack[k].children)} :
                  k \in 1..Len(stack)}
    \cup TreeLinks(ret.val)
    \cup UNION {TreeLinks(shown[k].result) : k \in 1..Len(shown)}

\* every link result, the one in progress included
AllLinks == DoneLinks \cup Range(pl.results)

\* an ended link that went through the downstream search
Searched(r) == r \in DoneLinks /\ r.org # DownstreamOrg /\ r.status \in {"OPEN", "merged"}

\* the status the resolver computes for a pull request whose data was read
StatusOf(pr) == getPRStatus(remote.review[pr].state, remote.review[pr].merged)

\* the commits of a searched link and what the direct query returned for them
CommitsOf(r) == remote.commits[r.pull]
DirectOf(r, k) == remote.direct[<<r.repo, CommitsOf(r)[k].sha>>]

\* the pull requests of a repository, as far as the run has listed them
RepoReviews(key) ==
    IF key \in DOMAIN remote.pages THEN Range(Concat(remote.pages[key])) ELSE {}

CallsWith(op, arg) == {k \in 1..Len(calls) : calls[k].op = op /\ calls[k].arg = arg}

RequestedKeys == {calls[k].arg : k \in {j \in 1..Len(calls) : calls[j].op = "getDetails"}}

\* the returns of getDetails for a key, in order
ReturnsFor(key) == {k \in 1..Len(snaps) : snaps[k].key = key}

\* the build of the key ran to its end: the first call for it returned details
Built(key) ==
    \E k \in ReturnsFor(key) :
        /\ ~snaps[k].err
        /\ \A j \in ReturnsFor(key) : j >= k

\* the complete details of a repository: every pull request of every page,
\* each with its commits
Complete(snap) ==
    /\ snap.key \in DOMAIN remote.pages
    /\ snap.pullRequests = Concat(remote.pages[snap.key])
    /\ \A pr \in RepoReviews(snap.key) :
          /\ pr \in DOMAIN remote.commits
          /\ MapGet(snap.commits, pr.number) = remote.commits[pr]

\* the calls made for the downstream search of a link
SearchOps ==
    {"PullRequests.ListCommits", "ListPullRequestsWithCommit", "getDetails",
     "PullRequests.List"}

SearchCalls == {k \in 1..Len(calls) : calls[k].op \in SearchOps /\ calls[k].link # NoURL}

LinkPR(url) == PR(url.org, url.repo, parsePRURL(url).id)

(***************************************************************************)
(* C1: when a page fetch or a commit fetch fails during the build of the   *)
(* details of a key, the cache holds no entry for the key afterwards, and  *)
(* no later getDetails call for the key returns details made of the        *)
(* partial enumeration.  The code stores the entry at line 98, before the  *)
(* build, and never removes it.                                            *)
(***************************************************************************)
C1_FailedBuildNotCached ==
    \A k \in 1..Len(snaps) :
        snaps[k].err =>
            /\ snaps[k].key \notin DOMAIN cache
            /\ \A j \in ReturnsFor(snaps[k].key) :
                  (j > k /\ ~snaps[j].err) => Complete(snaps[j])

(***************************************************************************)
(* C2: every successful getDetails call for a key returns details equal to *)
(* those of the first successful call for the key.  The code returns the   *)
(* local prCache of the build to the first caller and the copy stored at   *)
(* line 98, whose pullRequests slice is empty, to every later one.         *)
(***************************************************************************)
C2_EqualSnapshots ==
    \A j, k \in 1..Len(snaps) :
        (snaps[j].key = snaps[k].key /\ ~snaps[j].err /\ ~snaps[k].err) =>
            /\ snaps[j].pullRequests = snaps[k].pullRequests
            /\ snaps[j].commits = snaps[k].commits

(***************************************************************************)
(* C3: for every key the enumeration of the pull requests of the           *)
(* repository (the fetch of its first page) is started at most once in a   *)
(* run, and the entry of a key whose build ended is never replaced or      *)
(* removed: it is in the map and its commits are those the build returned. *)
(***************************************************************************)
C3_EnumeratedOncePerKey ==
    \A key \in RequestedKeys :
        /\ Cardinality(CallsWith("PullRequests.List", <<key, 1>>)) <= 1
        /\ \A k \in ReturnsFor(key) :
              (~snaps[k].err /\ \A j \in ReturnsFor(key) : j >= k) =>
                  /\ key \in DOMAIN cache
                  /\ commitMaps[cache[key].commits] = snaps[k].commits

\* a key built by one root and requested again by a later root
C3_Witness ==
    \E key \in RequestedKeys :
        /\ Built(key)
        /\ Cardinality(CallsWith("getDetails", key)) >= 3
        /\ rootIdx = 2
        /\ Cardinality(CallsWith("PullRequests.List", <<key, 1>>)) = 1

(***************************************************************************)
(* C5: for every searched link, when the direct query returned nothing for *)
(* every commit and a pull request of the downstream repository has a      *)
(* commit message that contains the SHA of one of the commits, that pull   *)
(* request is among the matches of the link, also when the details of the  *)
(* repository were requested before.  Stated for the first commit that a   *)
(* pull request of the repository mentions: no match is accepted before    *)
(* that commit, so the cache is consulted for it.                          *)
(***************************************************************************)
Mentioning(r, k) ==
    {pr \in RepoReviews(RepoKey(DownstreamOrg, r.repo)) :
        /\ pr \in DOMAIN remote.commits
        /\ MentionsSHA(remote.commits[pr], CommitsOf(r)[k].sha)}

C5_FallbackMatch ==
    \A r \in DoneLinks :
        (/\ Searched(r)
         /\ \A k \in 1..Len(CommitsOf(r)) : DirectOf(r, k) = <<>>) =>
            \A k \in 1..Len(CommitsOf(r)) :
                (\A m \in 1..(k - 1) : Mentioning(r, m) = {}) =>
                    \A pr \in Mentioning(r, k) :
                        \E j \in 1..Len(r.others) : r.others[j].url = HTMLURL(pr)

(***************************************************************************)
(* C6: the matches of a link never hold two entries with the same pull     *)
(* request number.                                                         *)
(***************************************************************************)
C6_NoDuplicateNumbers ==
    \A r \in AllLinks :
        \A j, k \in 1..Len(r.others) :
            r.others[j].id = r.others[k].id => j = k

\* a link whose match was returned by the direct query of one commit and was
\* discoverable again, by the direct query of another commit or by the cache
C6_Witness ==
    \E r \in DoneLinks :
        /\ Searched(r)
        /\ \E j \in 1..Len(r.others), k \in 1..Len(CommitsOf(r)) :
              /\ r.others[j].pull \in Range(DirectOf(r, k))
              /\ \/ \E m \in 1..Len(CommitsOf(r)) :
                       m # k /\ r.others[j].pull \in Range(DirectOf(r, m))
                 \/ /\ r.others[j].pull \in DOMAIN remote.commits
                    /\ \E m \in 1..Len(CommitsOf(r)) :
                          MentionsSHA(remote.commits[r.others[j].pull],
                                      CommitsOf(r)[m].sha)

(***************************************************************************)
(* C7: no match of a link has the URL of the link itself.                  *)
(***************************************************************************)
C7_NoSelfMatch ==
    \A r \in AllLinks :
        \A j \in 1..Len(r.others) : r.others[j].url # r.url

\* a link the direct query echoed, processed to its end with a match
C7_Witness ==
    \E r \in DoneLinks :
        /\ Searched(r)
        /\ Len(r.others) >= 1
        /\ \E k \in 1..Len(CommitsOf(r)) :
              \E o \in Range(DirectOf(r, k)) : HTMLURL(o) = r.url

(***************************************************************************)
(* C8, as claimed: every pull request the direct query returned for a      *)
(* commit of a searched link, other than the echo of the link, is exactly  *)
(* once among the matches of the link, with the status the resolver        *)
(* computes for it.                                                        *)
(***************************************************************************)
C8_EveryDirectResultMatched ==
    \A r \in DoneLinks :
        Searched(r) =>
            \A k \in 1..Len(CommitsOf(r)) :
                \A o \in Range(DirectOf(r, k)) :
                    HTMLURL(o) # r.url =>
                        LET hits == {j \in 1..Len(r.others) : r.others[j].url = HTMLURL(o)}
                        IN  /\ Cardinality(hits) = 1
                            /\ \A j \in hits : r.others[j].status = StatusOf(o)

(***************************************************************************)
(* C8, amended: every pull request the direct query returned for a commit  *)
(* of a searched link, other than the echo of the link, is at most once    *)
(* among the matches, with the status the resolver computes for it, and it *)
(* is missing only when another pull request with the same number (of      *)
(* another repository) was accepted for the link before it.                *)
(***************************************************************************)
C8_DirectResultMatchedByNumber ==
    \A r \in DoneLinks :
        Searched(r) =>
            \A k \in 1..Len(CommitsOf(r)) :
                \A o \in Range(DirectOf(r, k)) :
                    HTMLURL(o) # r.url =>
                        LET hits == {j \in 1..Len(r.others) : r.others[j].url = HTMLURL(o)}
                        IN  /\ Cardinality(hits) <= 1
                            /\ \A j \in hits : r.others[j].status = StatusOf(o)
                            /\ hits = {} =>
                                 \E j \in 1..Len(r.others) : r.others[j].id = o.number

\* an open upstream link with a merged match returned by the direct query
C8_Witness ==
    \E r \in DoneLinks :
        /\ Searched(r)
        /\ r.status = "OPEN"
        /\ \E j \in 1..Len(r.others), k \in 1..Len(CommitsOf(r)) :
              /\ r.others[j].pull \in Range(DirectOf(r, k))
              /\ r.others[j].status = "merged"

(***************************************************************************)
(* C9: for a link whose status is closed no commit list, no direct query   *)
(* and no request to the cache is made, and the link has no matches.       *)
(***************************************************************************)
C9_ClosedNotSearched ==
    /\ \A k \in SearchCalls :
          LET pr == LinkPR(calls[k].link)
          IN  pr \in DOMAIN remote.review /\ StatusOf(pr) # "closed"
    /\ \A r \in AllLinks : r.status = "closed" => r.others = <<>>

\* an upstream link closed without merge, processed to its end
C9_Witness ==
    \E r \in DoneLinks : r.org # DownstreamOrg /\ r.status = "closed"

(***************************************************************************)
(* C10: a link of the downstream organisation is recorded with its         *)
(* resolved status and without matches, and no commit list, direct query   *)
(* or request to the cache is made for it, whatever its status.            *)
(***************************************************************************)
C10_DownstreamTerminal ==
    /\ \A k \in SearchCalls : calls[k].link.org # DownstreamOrg
    /\ \A r \in DoneLinks :
          r.org = DownstreamOrg =>
              /\ r.pull \in DOMAIN remote.review
              /\ r.status = StatusOf(r.pull)
              /\ r.others = <<>>

\* an open link of the downstream organisation, processed to its end
C10_Witness ==
    \E r \in DoneLinks : r.org = DownstreamOrg /\ r.status = "OPEN"

(***************************************************************************)
(* Item results, for the properties of the walk.                           *)
(***************************************************************************)
RECURSIVE TreeItems(_)
\* an item result and the results of its descendants
TreeItems(r) == {r} \cup UNION {TreeItems(r.children[k]) : k \in 1..Len(r.children)}

\* the item results built so far: those shown, the one being returned and
\* those a walk in progress has collected from its children
Results ==
    {r \in UNION {TreeItems(shown[k].result) : k \in 1..Len(shown)}
           \cup TreeItems(ret.val)
           \cup UNION {UNION {TreeItems(c) : c \in Range(stack[k].children)} :
                         k \in 1..Len(stack)} :
        r.issue # ""}

ChildKeys(r) == [k \in 1..Len(r.children) |-> r.children[k].issue]

LinkURLs(r) == [k \in 1..Len(r.linkResults) |-> r.linkResults[k].url]

\* the child ids the tracker gives for an issue, by the rule of its type
ChildIDs(key) ==
    LET type == Issues[key].type
    IN  IF type = "Epic" THEN SearchResults("Epic Link", key)
        ELSE IF type = "Feature" THEN SearchResults("Parent Link", key)
        ELSE IF type = "Story" THEN Issues[key].subtasks
        ELSE <<>>

\* the error being returned comes from the last call of the history
Failing == pc = "return" /\ ret.err /\ Len(calls) > 0

LastCall == calls[Len(calls)]

(***************************************************************************)
(* C11: when the direct query for a commit fails with the not-found        *)
(* condition, the link does not fail: right after the call no error is     *)
(* being returned and processLinks is still working on the same link.      *)
(* The code returns every error of the query (lines 296-298).              *)
(***************************************************************************)
C11_NotFoundIsEmpty ==
    (/\ Len(calls) > 0
     /\ LastCall.op = "ListPullRequestsWithCommit"
     /\ LastCall.cond = "not found") =>
        /\ ~ret.err
        /\ pc # "return"
        /\ CurrentLink = LastCall.link

(***************************************************************************)
(* C12: when the walk of a child returns an error to its parent, the walk  *)
(* of the parent goes on with its next child and does not return.  The     *)
(* code returns the error of the child (lines 441-443, 449-451).           *)
(***************************************************************************)
C12_ChildFailureKeepsParent ==
    [][(pc = "return" /\ ret.err /\ stack # <<>>) =>
          (pc' = "childCall" /\ Len(stack') = Len(stack))]_vars

(***************************************************************************)
(* C13: the failure of one link never makes the walk of its item fail: no  *)
(* walk returns an error that comes from a call made for a link.  The code *)
(* returns from processLinks at the first error and processOneIssue        *)
(* returns it (lines 416-419).                                             *)
(***************************************************************************)
C13_LinkFailureLosesOnlyLink ==
    Failing => LastCall.link = NoURL

(***************************************************************************)
(* C14: the roots are reported one by one in the order requested; a root   *)
(* whose fetch failed is reported as an error without a result; every root *)
(* before the current one was walked, whatever happened to the others, and *)
(* at the end of the run every root has been reported.                     *)
(***************************************************************************)
RootFetches(j) ==
    {k \in 1..Len(calls) :
        /\ calls[k].op = "Issue.Get"
        /\ calls[k].root = j
        /\ calls[k].issue = roots[j]}

C14_RootFetchFailure ==
    /\ Len(shown) <= Len(roots)
    /\ pc \in {"main", "done"} => Len(shown) = rootIdx - 1
    /\ pc = "done" => Len(shown) = Len(roots)
    /\ \A j \in 1..Len(shown) :
          /\ shown[j].root = roots[j]
          /\ Cardinality(RootFetches(j)) = 1
          /\ \A k \in RootFetches(j) :
                IF calls[k].ok
                THEN ~shown[j].err => shown[j].result.issue = roots[j]
                ELSE shown[j].err /\ shown[j].result = NoResult

\* the fetch of the first root failed and the second root was shown
C14_Witness ==
    /\ Len(shown) >= 2
    /\ \E k \in RootFetches(1) : ~calls[k].ok
    /\ shown[1].err
    /\ ~shown[2].err
    /\ shown[2].result.issue = roots[2]

(***************************************************************************)
(* C15: the children of every item result are the distinct child ids of    *)
(* the item, each once, in the order of their first occurrence.  The code  *)
(* walks the list as it is (lines 439, 447).                               *)
(***************************************************************************)
C15_ChildrenDeduplicated ==
    \A r \in Results : ChildKeys(r) = uniqueStrings(ChildIDs(r.issue))

(***************************************************************************)
(* C16: in every item result the link results are one per extracted link,  *)
(* the i-th with the i-th URL, and the child results are in the order of   *)
(* the child ids discovered for the item.                                  *)
(***************************************************************************)
C16_RequestOrder ==
    \A r \in Results :
        /\ LinkURLs(r) = getLinks(Issues[r.issue])
        /\ ChildKeys(r) = ChildIDs(r.issue)

\* a root shown with an item of two links and an item of several children
C16_Witness ==
    \E j \in 1..Len(shown) :
        /\ ~shown[j].err
        /\ \E r \in TreeItems(shown[j].result) : Len(r.linkResults) >= 2
        /\ \E r \in TreeItems(shown[j].result) :
              /\ Len(r.children) >= 3
              /\ r.children[1].issue # r.children[Len(r.children)].issue

(***************************************************************************)
(* C17: getLinks returns the matches of the description followed by those  *)
(* of the comments, each URL once, in the order of the first occurrences;  *)
(* without a match it returns the empty sequence.                          *)
(***************************************************************************)
AllMatches(issue) ==
    FindAllString(issue.description)
    \o Concat([k \in 1..Len(issue.comments) |-> FindAllString(issue.comments[k])])

FirstIndex(q, x) == CHOOSE i \in 1..Len(q) : q[i] = x /\ \A j \in 1..(i - 1) : q[j] # x

C17_DistinctLinksInOrder ==
    pc # "getLinks" =>
        LET links == pl.links
            all   == AllMatches(Top.issue)
        IN  /\ \A i, j \in 1..Len(links) : links[i] = links[j] => i = j
            /\ Range(links) = Range(all)
            /\ \A i, j \in 1..Len(links) :
                  i < j => FirstIndex(all, links[i]) < FirstIndex(all, links[j])
            /\ all = <<>> => links = <<>>

\* a URL of the description is repeated in a comment, and a later comment
\* brings a new URL
C17_Witness ==
    /\ pc # "getLinks"
    /\ Len(pl.links) = 2
    /\ Len(Top.issue.comments) = 2
    /\ Top.issue.comments[1] = <<pl.links[1]>>
    /\ Top.issue.comments[2] = <<pl.links[2]>>
    /\ Top.issue.description = <<Word, pl.links[1]>>

(***************************************************************************)
(* C18: the status is merged when the merge check says merged, whatever    *)
(* the raw state; otherwise it is open ("OPEN") for the raw state open and *)
(* closed for the other raw state.                                         *)
(***************************************************************************)
C18_MergedOverrides ==
    pc = "gotPRStatus" =>
        LET info   == remote.review[U1]
            status == pl.results[1].status
        IN  IF info.merged THEN status = "merged"
            ELSE IF info.state = "open" THEN status = "OPEN"
            ELSE status = "closed"

\* a pull request merged according to the merge check, with the raw state open
C18_Witness ==
    /\ pc = "gotPRStatus"
    /\ remote.review[U1] = ReviewInfo("open", TRUE)
    /\ pl.results[1].status = "merged"

(***************************************************************************)
(* C19: a search is made only for an Epic, by "Epic Link", and for a       *)
(* Feature, by "Parent Link", with the key of the issue; the children of   *)
(* an Epic or a Feature are the issues its search found, those of a Story  *)
(* its subtasks, and an issue of another type has none.                    *)
(***************************************************************************)
Searches == {k \in 1..Len(calls) : calls[k].op = "Issue.Search"}

C19_ChildrenByType ==
    /\ \A k \in Searches :
          LET type == Issues[calls[k].issue].type
          IN  \/ type = "Epic" /\ calls[k].arg = <<"Epic Link", calls[k].issue>>
              \/ type = "Feature" /\ calls[k].arg = <<"Parent Link", calls[k].issue>>
    /\ \A r \in Results :
          LET type == Issues[r.issue].type
              own  == {k \in Searches : calls[k].issue = r.issue /\ calls[k].ok}
          IN  /\ type \in {"Epic", "Feature"} => own # {}
              /\ type = "Epic" => ChildKeys(r) = SearchResults("Epic Link", r.issue)
              /\ type = "Feature" => ChildKeys(r) = SearchResults("Parent Link", r.issue)
              /\ type = "Story" => ChildKeys(r) = Issues[r.issue].subtasks
              /\ type \notin {"Epic", "Feature", "Story"} => r.children = <<>>

\* a tree with a Feature, an Epic, a Story and a Task, walked to its end
C19_Witness ==
    \E j \in 1..Len(shown) :
        /\ ~shown[j].err
        /\ {Issues[r.issue].type : r \in TreeItems(shown[j].result)}
               = {"Feature", "Epic", "Story", "Task"}
        /\ \E r \in TreeItems(shown[j].result) :
              Issues[r.issue].type = "Feature" /\ Len(r.children) = 1

(***************************************************************************)
(* C20: siblings are worked on together.  Stated on the history of a root  *)
(* walked to its end, whose tree has an item with two links and an item    *)
(* with several children: a call for one sibling lies between two calls    *)
(* for another.  The code has one goroutine and takes the siblings one     *)
(* after the other (lines 245, 439, 447).                                  *)
(***************************************************************************)
\* two links of the issue overlapped during the walk of root j
LinksOverlap(j) ==
    \E a, b, c \in 1..Len(calls) :
        /\ a < b /\ b < c
        /\ calls[a].root = j /\ calls[b].root = j /\ calls[c].root = j
        /\ calls[a].issue = calls[b].issue /\ calls[b].issue = calls[c].issue
        /\ calls[a].link # NoURL /\ calls[b].link # NoURL
        /\ calls[a].link = calls[c].link
        /\ calls[a].link # calls[b].link

\* two subtasks of the story overlapped during the walk of root j
ChildrenOverlap(j) ==
    \E a, b, c \in 1..Len(calls) :
        /\ a < b /\ b < c
        /\ calls[a].root = j /\ calls[b].root = j /\ calls[c].root = j
        /\ {calls[a].issue, calls[b].issue} = {"T1", "T2"}
        /\ calls[c].issue = calls[a].issue

C20_SiblingsOverlap ==
    \A j \in 1..Len(shown) :
        (~shown[j].err /\ shown[j].root = "F1") =>
            LinksOverlap(j) \/ ChildrenOverlap(j)

(***************************************************************************)
(* Steps of the walk, for the properties of C21 to C30.                    *)
(***************************************************************************)
\* the matches of the link processLinks is working on
CurOthers == pl.results[pl.i].others

\* the matches of link i after the step: processLinks goes on, or has just
\* handed its results to processOneIssue
OthersNext(i) ==
    IF pl'.i = 0 THEN stack'[1].linkResults[i].others ELSE pl'.results[i].others

\* the step issues a remote call or a request to the cache
Calling == Len(calls') > Len(calls)

LinkSteps ==
    {"linkGet", "linkStatus", "listCommits", "commitQuery", "otherPR",
     "cacheLookup", "cachePage", "cacheCommits", "scan"}

CacheSteps == {"cacheLookup", "cachePage", "cacheCommits", "scan"}

\* the processing of a link result is over: it has its status and, when it was
\* searched, the direct query of each of its commits was made
LinkDone(r) ==
    /\ r.status # ""
    /\ (r.org # DownstreamOrg /\ r.status # "closed") =>
          /\ r.pull \in DOMAIN remote.commits
          /\ \A k \in 1..Len(remote.commits[r.pull]) :
                <<r.repo, remote.commits[r.pull][k].sha>> \in DOMAIN remote.direct

\* every link of the item has a finished result, every child a result
NodeDone(r) ==
    /\ Len(r.linkResults) = Len(getLinks(Issues[r.issue]))
    /\ \A k \in 1..Len(r.linkResults) : LinkDone(r.linkResults[k])
    /\ Len(r.children) = Len(ChildIDs(r.issue))

(***************************************************************************)
(* C21: when a walk returns the result of an item, no processing of links  *)
(* and no request to the cache is in progress, and in the result and in    *)
(* every result below it each link has been processed to its end and each  *)
(* child has been walked.                                                  *)
(***************************************************************************)
C21_FanInBarrier ==
    (pc = "return" /\ ~ret.err) =>
        /\ pl = NoPL
        /\ gd = NoGD
        /\ \A r \in TreeItems(ret.val) : NodeDone(r)

\* the story returns with its three children, one of them with a match
C21_Witness ==
    /\ pc = "return"
    /\ ~ret.err
    /\ ret.val.issue = "S1"
    /\ Len(ret.val.children) = 3
    /\ \E k \in 1..3 :
          /\ Len(ret.val.children[k].linkResults) = 2
          /\ ret.val.children[k].linkResults[1].others # <<>>

(***************************************************************************)
(* C22: the cache is asked for a commit exactly when, after the results of *)
(* the direct query of the commit were handled, the link has no match:     *)
(* whenever the cache is about to be asked the link has no match, whenever *)
(* processLinks leaves a commit without asking the link has one, and the   *)
(* pull requests of a repository are listed only for a link whose first    *)
(* commit had no match among the results of its direct query.              *)
(***************************************************************************)
C22_FallbackGating ==
    [][/\ pc' = "cacheLookup" => pl'.results[pl'.i].others = <<>>
       /\ (/\ pc \in {"commitQuery", "otherPR"}
           /\ pc' \in {"commitQuery", "linkGet", "children"}) =>
              OthersNext(pl.i) # <<>>
       /\ (Calling /\ calls'[Len(calls')].op = "PullRequests.List") =>
              /\ CurOthers = <<>>
              /\ \A o \in Range(remote.direct[<<pl.results[pl.i].repo,
                                               pl.commits[1].sha>>]) :
                    HTMLURL(o) = pl.links[pl.i]]_vars

\* a run that ended without listing any repository: the link had a match for
\* its first commit and a second commit
C22_Witness ==
    /\ pc = "done"
    /\ CallsWith("getDetails", RepoKey(DownstreamOrg, "r1")) = {}
    /\ \E r \in DoneLinks :
          /\ Searched(r)
          /\ Len(CommitsOf(r)) = 2
          /\ r.others # <<>>

(***************************************************************************)
(* C23: the matches of a link are in the order of their discovery.  While  *)
(* a link is processed its commits are taken in order, for each commit the *)
(* results of the direct query in the order returned, then the pull        *)
(* requests of the cached details in their order; a step changes the       *)
(* matches only by appending the pull request it is looking at.            *)
(***************************************************************************)
Phase23(p) == IF p \in CacheSteps THEN 1 ELSE 0

C23_FirstDiscoveredOrder ==
    [][/\ (pl.i # 0 /\ pl'.i = pl.i /\ pl.ci >= 1) =>
              /\ pl'.ci >= pl.ci
              /\ pl'.ci = pl.ci =>
                    /\ Phase23(pc') >= Phase23(pc)
                    /\ (pc' = "otherPR" /\ pc = "otherPR") => pl'.oj = pl.oj + 1
                    /\ (pc' = "scan" /\ pc = "scan") => pl'.sk = pl.sk + 1
       /\ (pl.i # 0 /\ pc' # "return") =>
              LET old == CurOthers
                  new == OthersNext(pl.i)
                  cand == IF pc = "otherPR"
                          THEN remote.direct[<<pl.results[pl.i].repo,
                                               pl.commits[pl.ci].sha>>][pl.oj]
                          ELSE pl.cached.pullRequests[pl.sk]
              IN  \/ new = old
                  \/ /\ pc \in {"otherPR", "scan"}
                     /\ Len(new) = Len(old) + 1
                     /\ SubSeq(new, 1, Len(old)) = old
                     /\ new[Len(new)].pull = cand]_vars

\* a link with a match from its first commit, then one from its second commit
C23_Witness ==
    \E r \in DoneLinks :
        /\ Searched(r)
        /\ Len(r.others) = 2
        /\ Len(CommitsOf(r)) = 2
        /\ r.others[1].pull \in Range(DirectOf(r, 1))
        /\ r.others[2].pull \in Range(DirectOf(r, 2))
        /\ r.others[2].pull \notin Range(DirectOf(r, 1))

(***************************************************************************)
(* C24: the details a build returns hold the pull requests of every page   *)
(* of the repository in page order, each with its commit list, and the     *)
(* build fetched the pages once each, in order, up to the last.            *)
(***************************************************************************)
C24_BuildFollowsPages ==
    \A k \in 1..Len(snaps) :
        (~snaps[k].err /\ \A j \in ReturnsFor(snaps[k].key) : j >= k) =>
            /\ Complete(snaps[k])
            /\ \A p \in 1..Len(remote.pages[snaps[k].key]) :
                  /\ Cardinality(CallsWith("PullRequests.List", <<snaps[k].key, p>>)) = 1
                  /\ \A a \in CallsWith("PullRequests.List", <<snaps[k].key, p>>) :
                        /\ calls[a].ok
                        /\ \A b \in CallsWith("PullRequests.List", <<snaps[k].key, p + 1>>) :
                              a < b
            /\ CallsWith("PullRequests.List",
                         <<snaps[k].key, Len(remote.pages[snaps[k].key]) + 1>>) = {}

\* the build of a repository of two pages returned
C24_Witness ==
    \E k \in 1..Len(snaps) :
        /\ ~snaps[k].err
        /\ Len(remote.pages[snaps[k].key]) = 2
        /\ Len(snaps[k].pullRequests) = 2
        /\ DOMAIN snaps[k].commits = {1, 2}

(***************************************************************************)
(* C25: a walk takes its steps in order: the fetch of the issue, then its  *)
(* links, then the discovery of its children, then their walks; the links  *)
(* start only after the fetch succeeded, the children are looked for only  *)
(* when every link has its result, a child is walked only from the loop    *)
(* over the children; the walk ends by returning, and after a failed call  *)
(* no call is made before the next root.                                   *)
(***************************************************************************)
Phase25(p) ==
    IF p = "issueGet" THEN 1
    ELSE IF p \in LinkSteps THEN 2
    ELSE IF p = "children" THEN 3
    ELSE IF p = "childCall" THEN 4
    ELSE IF p = "return" THEN 5
    ELSE 0

C25_StepsInOrder ==
    [][/\ (stack # <<>> /\ Len(stack') = Len(stack) /\ pc # "return") =>
              Phase25(pc') >= Phase25(pc)
       /\ Len(stack') = Len(stack) + 1 =>
              pc \in {"main", "childCall"} /\ pc' = "issueGet"
       /\ (Phase25(pc') = 2 /\ Phase25(pc) # 2) =>
              /\ pc = "issueGet"
              /\ Calling
              /\ calls'[Len(calls')].op = "Issue.Get"
              /\ calls'[Len(calls')].ok
       /\ pc' = "children" =>
              Len(stack'[1].linkResults) = Len(getLinks(stack'[1].issue))
       /\ Len(stack') = Len(stack) - 1 =>
              /\ pc' = "return"
              /\ ret'.err \/ pc = "childCall"
       /\ (Len(calls) > 0 /\ ~LastCall.ok /\ LastCall.root = rootIdx) =>
              calls' = calls]_vars

\* the search of the first root failed, the second root was walked to its end
C25_Witness ==
    /\ Len(shown) = 2
    /\ shown[1].err
    /\ ~shown[2].err
    /\ \E k \in 1..Len(calls) :
          calls[k].op = "Issue.Search" /\ ~calls[k].ok /\ calls[k].root = 1

(***************************************************************************)
(* C26: a walk holds no issue before its own fetch and the fetched issue   *)
(* afterwards, never the summary its parent got from the search; every     *)
(* walk starts with exactly one Issue.Get, for its own key, no Issue.Get   *)
(* is made elsewhere, and the links come from the fetched issue.           *)
(***************************************************************************)
C26_OwnFetch ==
    [][/\ \A k \in 1..Len(stack') :
              stack'[k].issue = IF k = 1 /\ pc' = "issueGet" THEN NoIssue
                                ELSE Issues[stack'[k].issueID]
       /\ Len(stack') = Len(stack) + 1 => pc' = "issueGet"
       /\ pc = "issueGet" =>
              /\ Len(calls') = Len(calls) + 1
              /\ calls'[Len(calls')].op = "Issue.Get"
              /\ calls'[Len(calls')].arg = stack[1].issueID
              /\ pc' = "linkGet" => pl'.links = getLinks(Issues[stack[1].issueID])
       /\ (pc # "issueGet" /\ Calling) => calls'[Len(calls')].op # "Issue.Get"]_vars

\* the story found by the search of the epic is walked with its own fetch
C26_Witness ==
    /\ pc = "children"
    /\ Top.issueID = "S1"
    /\ Top.issue = Issues["S1"]
    /\ Top.issue # Summary("S1")
    /\ \E k \in 1..Len(calls) :
          calls[k].op = "Issue.Search" /\ calls[k].issue = "E1" /\ calls[k].ok

(***************************************************************************)
(* C27: when the result of a root is shown, each issue was fetched during  *)
(* the walk of that root as often as it occurs in the result tree: an      *)
(* issue met twice, under one parent or as a root after it was a           *)
(* descendant, is fetched and walked each time.                            *)
(***************************************************************************)
RECURSIVE TreeSeq(_)
\* the issues of a result tree, one entry per node
TreeSeq(r) ==
    <<r.issue>> \o Concat([k \in 1..Len(r.children) |-> TreeSeq(r.children[k])])

Fetches(j, key) ==
    {k \in 1..Len(calls') :
        /\ calls'[k].op = "Issue.Get"
        /\ calls'[k].root = j
        /\ calls'[k].arg = key
        /\ calls'[k].ok}

C27_WalkedOncePerPath ==
    [][(Len(shown') > Len(shown) /\ ~shown'[Len(shown')].err) =>
          LET j == Len(shown')
              nodes == TreeSeq(shown'[j].result)
          IN  \A key \in DOMAIN Issues :
                 Cardinality(Fetches(j, key))
                    = Cardinality({n \in 1..Len(nodes) : nodes[n] = key})]_vars

\* T1 was walked under the story and again as the second root, T2 twice under
\* the story; the second root found the details of the repository in the cache
C27_Witness ==
    /\ Len(shown) = 2
    /\ ~shown[1].err
    /\ ~shown[2].err
    /\ shown[2].root = "T1"
    /\ Cardinality({n \in 1..Len(TreeSeq(shown[1].result)) :
                       TreeSeq(shown[1].result)[n] = "T2"}) = 2
    /\ \E n \in 1..Len(TreeSeq(shown[1].result)) : TreeSeq(shown[1].result)[n] = "T1"
    /\ \E k \in 1..Len(calls) : calls[k].op = "getDetails" /\ calls[k].root = 2
    /\ \A k \in 1..Len(calls) : calls[k].op = "PullRequests.List" => calls[k].root = 1

(***************************************************************************)
(* C28: a call that fails ends the walk at once with an error and no       *)
(* result; a walk returns a result or an error, never both; an error       *)
(* travels up to main without any call; what is shown for a root is an     *)
(* error or a result; the link results of an item are none or all.         *)
(***************************************************************************)
C28_AllOrNothing ==
    [][/\ (Calling /\ ~calls'[Len(calls')].ok) =>
              /\ pc' = "return"
              /\ ret' = [err |-> TRUE, val |-> NoResult]
              /\ pl' = NoPL
              /\ gd' = NoGD
              /\ stack' = Tail(stack)
       /\ pc' = "return" =>
              IF ret'.err THEN ret'.val = NoResult ELSE ret'.val.issue # ""
       /\ (pc = "return" /\ ret.err) => calls' = calls
       /\ Len(shown') > Len(shown) =>
              (shown'[Len(shown')].err <=> shown'[Len(shown')].result = NoResult)
       /\ \A k \in 1..Len(stack') :
              \/ stack'[k].linkResults = <<>>
              \/ /\ Len(stack'[k].linkResults) = Len(getLinks(stack'[k].issue))
                 /\ \A n \in 1..Len(stack'[k].linkResults) :
                       stack'[k].linkResults[n].status # ""]_vars

\* the fetch of the second link failed after the first link had its result
C28_Witness ==
    /\ pc = "return"
    /\ ret = [err |-> TRUE, val |-> NoResult]
    /\ LastCall.op = "PullRequests.Get"
    /\ LastCall.arg = D2
    /\ ~LastCall.ok
    /\ \E k \in 1..Len(calls) :
          /\ calls[k].op = "PullRequests.IsMerged"
          /\ calls[k].arg = U1
          /\ calls[k].root = LastCall.root
          /\ calls[k].ok

(***************************************************************************)
(* C29: passing over the echo does not count as a match.  The step on the  *)
(* echo leaves the matches and the numbers seen as they are, and when the  *)
(* echo is the last result and the link has no match the cache is asked;   *)
(* a result that is not the echo and whose number no match has is          *)
(* accepted, also when its number is that of the link.                     *)
(***************************************************************************)
C29_EchoNotSeen ==
    [][pc = "otherPR" =>
          LET o   == pl.otherPRs[pl.oj]
              url == pl.links[pl.i]
              acc == {CurOthers[k].id : k \in 1..Len(CurOthers)}
          IN  IF HTMLURL(o) = url
              THEN /\ calls' = calls
                   /\ OthersNext(pl.i) = CurOthers
                   /\ pl'.i = pl.i => pl'.otherIDs = pl.otherIDs
                   /\ (pl.oj = Len(pl.otherPRs) /\ acc = {}) => pc' = "cacheLookup"
              ELSE o.number \notin acc =>
                      \/ pc' = "return"
                      \/ /\ Len(OthersNext(pl.i)) = Len(CurOthers) + 1
                         /\ OthersNext(pl.i)[Len(CurOthers) + 1].pull = o]_vars

\* after the echo of the link, a pull request of the downstream repository
\* with the number of the link was accepted
C29_Witness ==
    \E r \in DoneLinks :
        /\ Searched(r)
        /\ \E k \in 1..Len(CommitsOf(r)) :
              \E a, b \in 1..Len(DirectOf(r, k)) :
                  /\ a < b
                  /\ HTMLURL(DirectOf(r, k)[a]) = r.url
                  /\ DirectOf(r, k)[b].number = r.id
                  /\ \E j \in 1..Len(r.others) : r.others[j].pull = DirectOf(r, k)[b]

(***************************************************************************)
(* C30: a match of a link has no matches of its own.                       *)
(***************************************************************************)
C30_MatchesAreLeaves ==
    \A r \in AllLinks :
        \A j \in 1..Len(r.others) : r.others[j].others = <<>>

\* a link with two matches, both of the downstream organisation
C30_Witness ==
    \E r \in DoneLinks :
        /\ Len(r.others) >= 2
        /\ \A j \in 1..Len(r.others) :
              r.others[j].org = DownstreamOrg /\ r.others[j].status # ""

(***************************************************************************)
(* C31 as written: a run over an acyclic hierarchy ends with every root    *)
(* reported, and the walk of a root that is its own descendant never ends. *)
(* The second part fails when a call of that walk fails: the error is      *)
(* returned through every frame and the root is reported as failed.        *)
(***************************************************************************)
Cyclic(key) == key \in {"L1", "L2"}

C31_CycleNeverEnds ==
    /\ ~Cyclic(roots[1]) => <>(pc = "done" /\ Len(shown) = Len(roots))
    /\ [](Cyclic(roots[1]) => shown = <<>>)

(***************************************************************************)
(* C31: a run over an acyclic hierarchy ends with every root reported.     *)
(* The walk of an item that is its own descendant never returns a result:  *)
(* such a root is reported only as an error, after a call of its walk      *)
(* failed, and while no call fails its walk does not end.                  *)
(***************************************************************************)
FailedCalls(j) == {k \in 1..Len(calls) : calls[k].root = j /\ ~calls[k].ok}

C31_EndsUnlessCycle ==
    /\ ~Cyclic(roots[1]) => <>(pc = "done" /\ Len(shown) = Len(roots))
    /\ [](/\ (pc = "return" /\ ~ret.err) => ~Cyclic(ret.val.issue)
          /\ \A j \in 1..Len(shown) :
                Cyclic(roots[j]) => shown[j].err /\ FailedCalls(j) # {}
          /\ (Cyclic(roots[1]) /\ FailedCalls(1) = {}) => pc # "done")

\* L1 is walked below itself, no call has failed, and the task between the
\* two walks has its results
C31_Witness ==
    /\ \E j, k \in 1..Len(stack) :
          j < k /\ stack[j].issueID = "L1" /\ stack[k].issueID = "L1"
    /\ \A k \in 1..Len(calls) : calls[k].ok
    /\ \E k \in 1..Len(stack) :
          stack[k].issueID = "L2" /\ Len(stack[k].children) = 1

(***************************************************************************)
(* C32: a getDetails call for a key leaves the entries of the other keys   *)
(* and their commit maps as they are, adds no entry but its own, lists     *)
(* pull requests and commits of its own repository only, and returns an    *)
(* error only when one of these calls fails: what happened to the build of *)
(* another key does not make it fail or wait.                              *)
(***************************************************************************)
DetailSteps == {"cacheLookup", "cachePage", "cacheCommits"}

\* the key of the getDetails call in progress
DetailsKey ==
    IF pc = "cacheLookup" THEN RepoKey(DownstreamOrg, pl.results[pl.i].repo)
    ELSE gd.key

C32_OtherKeysUntouched ==
    [][(pc \in DetailSteps) =>
          LET key == DetailsKey
              new == calls'[Len(calls')]
          IN  /\ DOMAIN cache' \subseteq DOMAIN cache \cup {key}
              /\ \A k2 \in DOMAIN cache \ {key} :
                    /\ k2 \in DOMAIN cache'
                    /\ cache'[k2] = cache[k2]
                    /\ commitMaps'[cache[k2].commits] = commitMaps[cache[k2].commits]
              /\ Calling =>
                    \/ new.op = "getDetails" /\ new.arg = key
                    \/ new.op = "PullRequests.List" /\ new.arg[1] = key
                    \/ /\ new.op = "PullRequests.ListCommits"
                       /\ RepoKey(new.arg.org, new.arg.repo) = key
              /\ pc' \in DetailSteps \cup {"scan", "commitQuery", "linkGet",
                                          "children", "return"}
              /\ pc' = "return" => (Calling /\ ~new.ok /\ pc # "cacheLookup")]_vars

\* the build of the first repository failed, the details of the second were
\* built afterwards and the entry left by the failed build is still there
C32_Witness ==
    \E j, k \in 1..Len(snaps) :
        /\ j < k
        /\ snaps[j].key = RepoKey(DownstreamOrg, "r1")
        /\ snaps[j].err
        /\ snaps[k].key = RepoKey(DownstreamOrg, "r2")
        /\ ~snaps[k].err
        /\ Len(snaps[k].pullRequests) = 1
        /\ DOMAIN cache = {RepoKey(DownstreamOrg, "r1"), RepoKey(DownstreamOrg, "r2")}

(***************************************************************************)
(* C33: the run only reads from the two services.  Every remote call is    *)
(* one of the seven reading operations; what a service holds for a datum   *)
(* that was read stays what it was, whatever later calls are made; a step  *)
(* without a call and a call that fails leave the data read so far as it   *)
(* is.  The issues of the tracker are the same at every fetch.             *)
(***************************************************************************)
ReadOps ==
    {"Issue.Get", "Issue.Search", "PullRequests.Get", "PullRequests.IsMerged",
     "PullRequests.ListCommits", "ListPullRequestsWithCommit", "PullRequests.List"}

\* every answer the run has read is still the answer after the step
Kept(memo, memoNext) ==
    \A k \in DOMAIN memo : k \in DOMAIN memoNext /\ memoNext[k] = memo[k]

C33_RemoteOnlyRead ==
    [][/\ Calling =>
              /\ Len(calls') = Len(calls) + 1
              /\ calls'[Len(calls')].op \in ReadOps \cup {"getDetails"}
              /\ ~calls'[Len(calls')].ok => remote' = remote
       /\ ~Calling => remote' = remote
       /\ Kept(remote.review, remote'.review)
       /\ Kept(remote.commits, remote'.commits)
       /\ Kept(remote.direct, remote'.direct)
       /\ Kept(remote.pages, remote'.pages)
       /\ \A k \in 1..Len(stack') :
              stack'[k].issue \in {NoIssue, Issues[stack'[k].issueID]}]_vars

\* at the end of a run the commits of the same pull request were listed twice
\* and the same issue was fetched twice
C33_Witness ==
    /\ pc = "done"
    /\ \E j, k \in 1..Len(calls) :
          /\ j < k
          /\ calls[j].op = "PullRequests.ListCommits"
          /\ calls[k].op = "PullRequests.ListCommits"
          /\ calls[j].arg = calls[k].arg
          /\ calls[j].ok /\ calls[k].ok
          /\ calls[j].arg \in DOMAIN remote.commits
    /\ \E j, k \in 1..Len(calls) :
          /\ j < k
          /\ calls[j].op = "Issue.Get" /\ calls[k].op = "Issue.Get"
          /\ calls[j].arg = calls[k].arg
          /\ calls[j].ok /\ calls[k].ok

====
